---------------------------- MODULE Spec2Model ----------------------------
(***************************************************************************)
(* A model of the TEP fault-detection pipeline: the run-safe splitter      *)
(* (src/src/training/loader.py), the cascade trainer                       *)
(* (src/src/training/trainer.py), the cached preprocessing stages          *)
(* (src/src/preprocessing/processor.py) and the orchestrator (src/main.py).*)
(***************************************************************************)
EXTENDS Integers, Sequences, FiniteSets, TLC

(***************************************************************************)
(* Binary64 arithmetic.  split_by_run computes                             *)
(*     int(len(unique_runs) * (1 - test_size))                             *)
(* in Python floats.  A magnitude is a natural number held as a sequence   *)
(* of limbs of LimbBits bits, least significant first, counting units of   *)
(* 2^-FracBits; every double that occurs here is a multiple of that unit.  *)
(***************************************************************************)

\* Number of fractional bits of the fixed-point carrier (not a precision:
\* the precision is MantissaBits).
FracBits == 64

\* Width of one limb of the carrier.
LimbBits == 15

\* Significand width of an IEEE-754 binary64 value (Python's float).
MantissaBits == 53

Base == 2 ^ LimbBits

RECURSIVE BNorm(_)
BNorm(b) ==
    IF b = <<>> THEN <<>>
    ELSE IF b[Len(b)] = 0 THEN BNorm(SubSeq(b, 1, Len(b) - 1))
    ELSE b

RECURSIVE BFromNat(_)
BFromNat(v) == IF v = 0 THEN <<>> ELSE <<v % Base>> \o BFromNat(v \div Base)

RECURSIVE BToNat(_)
BToNat(b) == IF b = <<>> THEN 0 ELSE b[1] + Base * BToNat(Tail(b))

BLimb(b, i) == IF i >= 1 /\ i <= Len(b) THEN b[i] ELSE 0

BMaxLen(a, b) == IF Len(a) >= Len(b) THEN Len(a) ELSE Len(b)

RECURSIVE BAddFrom(_, _, _, _)
BAddFrom(a, b, i, c) ==
    IF i > BMaxLen(a, b) THEN (IF c = 1 THEN <<1>> ELSE <<>>)
    ELSE LET s == BLimb(a, i) + BLimb(b, i) + c
         IN  <<s % Base>> \o BAddFrom(a, b, i + 1, s \div Base)

BAdd(a, b) == BNorm(BAddFrom(a, b, 1, 0))

\* a - b for a >= b
RECURSIVE BSubFrom(_, _, _, _)
BSubFrom(a, b, i, c) ==
    IF i > Len(a) THEN <<>>
    ELSE LET d == BLimb(a, i) - BLimb(b, i) - c
         IN  <<(d + Base) % Base>> \o BSubFrom(a, b, i + 1, IF d < 0 THEN 1 ELSE 0)

BSub(a, b) == BNorm(BSubFrom(a, b, 1, 0))

\* a < b, both normalised
RECURSIVE BLessAt(_, _, _)
BLessAt(a, b, i) ==
    IF i = 0 THEN FALSE
    ELSE IF a[i] # b[i] THEN a[i] < b[i]
    ELSE BLessAt(a, b, i - 1)

BLess(a, b) ==
    IF Len(a) # Len(b) THEN Len(a) < Len(b) ELSE BLessAt(a, b, Len(a))

\* a * m for a natural number m <= Base
RECURSIVE BMulFrom(_, _, _, _)
BMulFrom(a, m, i, c) ==
    IF i > Len(a) THEN BFromNat(c)
    ELSE LET p == a[i] * m + c
         IN  <<p % Base>> \o BMulFrom(a, m, i + 1, p \div Base)

BMulNat(a, m) == BNorm(BMulFrom(a, m, 1, 0))

\* long division of a by the natural number d <= Base, most significant limb
\* first: the quotient and the remainder
RECURSIVE BDivFrom(_, _, _, _)
BDivFrom(a, d, i, r) ==
    IF i = 0 THEN [q |-> <<>>, r |-> r]
    ELSE LET cur  == Base * r + a[i]
             rest == BDivFrom(a, d, i - 1, cur % d)
         IN  [q |-> rest.q \o <<cur \div d>>, r |-> rest.r]

BDivNat(a, d) ==
    LET res == BDivFrom(a, d, Len(a), 0)
    IN  [q |-> BNorm(res.q), r |-> res.r]

\* a * 2^k and floor(a / 2^k)
BShl(a, k) ==
    LET whole == [i \in 1..(k \div LimbBits) |-> 0]
    IN  IF a = <<>> THEN <<>> ELSE whole \o BMulNat(a, 2 ^ (k % LimbBits))

BShr(a, k) ==
    LET drop == k \div LimbBits
    IN  IF drop >= Len(a) THEN <<>>
        ELSE BDivNat(SubSeq(a, drop + 1, Len(a)), 2 ^ (k % LimbBits)).q

\* number of significant bits of a limb, of a magnitude
RECURSIVE NatBits(_)
NatBits(v) == IF v = 0 THEN 0 ELSE 1 + NatBits(v \div 2)

BBitLen(a) ==
    IF a = <<>> THEN 0 ELSE LimbBits * (Len(a) - 1) + NatBits(a[Len(a)])

\* a mod 2^k is not zero
BLowNonZero(a, k) == BShl(BShr(a, k), k) # a

\* round-to-nearest, ties-to-even, of the magnitude m (plus a non-zero tail
\* below the unit when sticky) to MantissaBits significant bits
RoundDouble(m, sticky) ==
    IF BBitLen(m) <= MantissaBits THEN m
    ELSE LET d     == BBitLen(m) - MantissaBits
             q     == BShr(m, d)
             guard == BLimb(BShr(m, d - 1), 1) % 2
             low   == sticky \/ BLowNonZero(m, d - 1)
             up    == guard = 1 /\ (low \/ BLimb(q, 1) % 2 = 1)
         IN  BShl(IF up THEN BAdd(q, <<1>>) ELSE q, d)

One == BShl(<<1>>, FracBits)

\* the double a decimal literal num/den denotes (float("0.2") for <<2, 10>>)
FloatLiteral(lit) ==
    LET num == lit[1]
        den == lit[2]
        abs == IF num < 0 THEN -num ELSE num
        qr  == BDivNat(BShl(BFromNat(abs), FracBits), den)
    IN  [neg |-> num < 0, mag |-> RoundDouble(qr.q, qr.r # 0)]

\* 1 - f
OneMinus(f) ==
    IF f.neg THEN [neg |-> FALSE, mag |-> RoundDouble(BAdd(One, f.mag), FALSE)]
    ELSE IF BLess(One, f.mag)
         THEN [neg |-> TRUE, mag |-> RoundDouble(BSub(f.mag, One), FALSE)]
         ELSE [neg |-> FALSE, mag |-> RoundDouble(BSub(One, f.mag), FALSE)]

\* k * f for an int k >= 0 (converted to float exactly)
IntTimes(k, f) ==
    [neg |-> f.neg, mag |-> RoundDouble(BMulNat(f.mag, k), FALSE)]

\* int(f): truncation toward zero
FloatToInt(f) ==
    LET ip == BToNat(BShr(f.mag, FracBits))
    IN  IF f.neg THEN -ip ELSE ip

\* a slip: the test fraction taken for the train fraction
SplitIdxOfTestSize(len, size) ==
    FloatToInt(IntTimes(len, FloatLiteral(size)))

\* a slip: the slice takes one run more
SplitIdxPlusOne(len, size) ==
    FloatToInt(IntTimes(len, OneMinus(FloatLiteral(size)))) + 1

\* Line 83: split_idx = int(len(unique_runs) * (1 - test_size))
SplitIdx(len, size) ==
    FloatToInt(IntTimes(len, OneMinus(FloatLiteral(size))))

(***************************************************************************)
(* Dataframes.  A dataframe is its set of column names and its rows in     *)
(* order; a row keeps its index label and maps each column to a value.     *)
(* NaN is the value pandas gives a cell that has none.                     *)
(***************************************************************************)

NaN == -1

EmptyFrame == [cols |-> {}, rows |-> <<>>]

\* DataFrame.empty: some axis has length 0
IsEmpty(d) == d.cols = {} \/ d.rows = <<>>

Column(d, c) == [i \in 1..Len(d.rows) |-> d.rows[i].data[c]]

IsIn(v, seq) == \E i \in 1..Len(seq) : seq[i] = v

\* Series.unique(): the distinct values in order of first appearance
Unique(seq) ==
    LET vals     == {seq[i] : i \in 1..Len(seq)}
        First(v) == LET at == {i \in 1..Len(seq) : seq[i] = v}
                    IN  CHOOSE m \in at : \A k \in at : m <= k
        firsts   == {First(v) : v \in vals}
        Nth(k)   == CHOOSE p \in firsts : Cardinality({q \in firsts : q < p}) = k - 1
    IN  [k \in 1..Cardinality(firsts) |-> seq[Nth(k)]]

\* seq[:stop] of Python, for any int stop
Slice(seq, stop) ==
    LET last == IF stop < 0 THEN Len(seq) + stop
                ELSE IF stop > Len(seq) THEN Len(seq) ELSE stop
    IN  IF last <= 0 THEN <<>> ELSE SubSeq(seq, 1, last)

DropColumns(d, drop) ==
    [cols |-> d.cols \ drop,
     rows |-> [i \in 1..Len(d.rows) |->
                 [index |-> d.rows[i].index,
                  data  |-> [c \in d.cols \ drop |-> d.rows[i].data[c]]]]]

\* str() of a non-negative int, as its sequence of characters
DigitChar == <<"0", "1", "2", "3", "4", "5", "6", "7", "8", "9">>

RECURSIVE Str(_)
Str(v) ==
    IF v < 10 THEN <<DigitChar[v + 1]>>
    ELSE Str(v \div 10) \o <<DigitChar[(v % 10) + 1]>>

\* Line 62 of loader.py:
\* df['unique_run_id'] = df['faultNumber'].astype(str) + "_" + df['simulationRun'].astype(str)
RunId(fault, run) == Str(fault) \o <<"_">> \o Str(run)

AddUniqueRunId(d) ==
    [cols |-> d.cols \cup {"unique_run_id"},
     rows |-> [i \in 1..Len(d.rows) |->
                 [index |-> d.rows[i].index,
                  data  |-> [c \in d.cols \cup {"unique_run_id"} |->
                               IF c = "unique_run_id"
                               THEN RunId(d.rows[i].data["faultNumber"],
                                          d.rows[i].data["simulationRun"])
                               ELSE d.rows[i].data[c]]]]]

(***************************************************************************)
(* The run-safe splitter: DataLoader.split_by_run and _finalize_split.     *)
(***************************************************************************)

Metadata == {"faultNumber", "simulationRun", "sample", "unique_run_id"}

\* Lines 102-107: (X, y) of one split segment
finalize_split_op(d) ==
    [X |-> DropColumns(d, Metadata \cap d.cols),
     y |-> [i \in 1..Len(d.rows) |->
              [index |-> d.rows[i].index, value |-> d.rows[i].data["faultNumber"]]]]

\* a slip: the first train run is left out of the train filter
RowsInSkipFirst(d, runs) ==
    [cols |-> d.cols,
     rows |-> SelectSeq(d.rows, LAMBDA r : IsIn(r.data["unique_run_id"], Tail(runs)))]

\* a slip: the test filter forgets the last train run
RowsNotInButLast(d, runs) ==
    [cols |-> d.cols,
     rows |-> SelectSeq(d.rows,
                 LAMBDA r : ~IsIn(r.data["unique_run_id"], Slice(runs, Len(runs) - 1)))]

\* df[df['unique_run_id'].isin(runs)] and df[~df['unique_run_id'].isin(runs)]
RowsIn(d, runs) ==
    [cols |-> d.cols,
     rows |-> SelectSeq(d.rows, LAMBDA r : IsIn(r.data["unique_run_id"], runs))]

RowsNotIn(d, runs) ==
    [cols |-> d.cols,
     rows |-> SelectSeq(d.rows, LAMBDA r : ~IsIn(r.data["unique_run_id"], runs))]

\* Lines 82-91.  perm is the permutation sklearn's shuffle applies for the
\* seed RANDOM_SEED and this length.
SplitByRun(d, size, perm) ==
    LET uniq        == Unique(Column(d, "unique_run_id"))
        unique_runs == [i \in 1..Len(uniq) |-> uniq[perm[i]]]
        split_idx   == SplitIdx(Len(unique_runs), size)
        train_runs  == Slice(unique_runs, split_idx)
        df_train    == RowsIn(d, train_runs)
        df_test     == RowsNotIn(d, train_runs)
    IN  [unique_runs |-> unique_runs,
         split_idx   |-> split_idx,
         train_runs  |-> train_runs,
         train       |-> finalize_split_op(df_train),
         test        |-> finalize_split_op(df_test)]

(***************************************************************************)
(* State.                                                                  *)
(***************************************************************************)

VARIABLES
    df,            \* the dataframe handed to split_by_run
    test_size,     \* its test fraction, a decimal literal <<numerator, denominator>>
    spc,           \* "call" before split_by_run has run, "returned" after
    split,         \* what split_by_run computed and returned
    model_files,   \* the detector and diagnostician artifact files in MODEL_DIR
    tpc,           \* position in ModelTrainer.train_cascaded_models ("idle": no call)
    force,         \* the force argument of the call in progress
    train_df,      \* its df_train argument
    at_entry,      \* which artifact files existed when the call was made
    fitted,        \* the phases whose estimator this call has fitted
    written,       \* the phases whose artifact this call has persisted
    trainer,       \* the ModelTrainer's detector and diagnostician attributes
    interrupts,    \* how many calls have been interrupted so far
    fs,            \* the data directory: which files exist and what they hold
    fs_before,     \* the data directory before the stage that ran last
    n_simulations, \* DEFAULT_N_SIMULATIONS, the count main loads with
    main_pc,       \* position in main ("idle": main is not run)
    main_runs,     \* how many times main has been started
    trace,         \* the stages this run of main has performed, in order
    earlier,       \* the stages earlier runs of main have performed
    merge_ret,     \* what merge_faulty_and_normal_data returned last
    produced,      \* what the stage returned that wrote the master, the subset
    exit_code      \* what main returned (-1: it has not returned)

vars_split == <<df, test_size, spc, split>>

vars_trainer ==
    <<model_files, tpc, force, train_df, at_entry, fitted, written, trainer, interrupts>>

vars_pipeline ==
    <<fs, fs_before, n_simulations, main_pc, main_runs, trace, earlier, merge_ret,
      produced, exit_code>>

vars == <<df, test_size, spc, split,
          model_files, tpc, force, train_df, at_entry, fitted, written, trainer,
          interrupts,
          fs, fs_before, n_simulations, main_pc, main_runs, trace, earlier, merge_ret,
          produced, exit_code>>

(***************************************************************************)
(* Inputs of the splitter.                                                 *)
(***************************************************************************)

\* Largest simulationRun of the small dataframes.
MaxRun == 2

\* Most rows of the small dataframes.
MaxRows == 3

\* Most runs per class (normal, faulty) of the regular datasets.
MaxClassRuns == 10

\* A shuffle of at most this many runs may be any permutation; of more,
\* a rotation or a reversed rotation.
MaxShuffleAll == 4

Faults == {0, 1}

BaseCols == {"faultNumber", "simulationRun", "sample", "xmeas_1"}

\* test fractions, as the decimal literals 0, 0.1, 0.2, 0.5, 0.8, 0.9, 1,
\* and two outside [0, 1]: 1.5 and -0.5
TestSizes ==
    {<<0, 1>>, <<1, 10>>, <<2, 10>>, <<5, 10>>, <<8, 10>>, <<9, 10>>, <<1, 1>>,
     <<15, 10>>, <<-5, 10>>}

\* rows per run of the regular datasets
RegularRows == {1, 100}

\* the dataframe whose i-th row belongs to run keys[i] = <<faultNumber, simulationRun>>
MkFrame(keys) ==
    [cols |-> BaseCols,
     rows |-> [i \in 1..Len(keys) |->
                 [index |-> i - 1,
                  data  |-> [faultNumber   |-> keys[i][1],
                             simulationRun |-> keys[i][2],
                             sample        |-> i,
                             xmeas_1       |-> 0]]]]

SeqsUpTo(S, maxlen) == UNION {[1..k -> S] : k \in 0..maxlen}

SmallFrames == {MkFrame(keys) : keys \in SeqsUpTo(Faults \X (1..MaxRun), MaxRows)}

\* runs normal runs then runs faulty runs, each of rows consecutive rows
RegularFrame(runs, rows) ==
    MkFrame([i \in 1..(2 * runs * rows) |->
               <<(i - 1) \div (runs * rows), (((i - 1) \div rows) % runs) + 1>>])

\* every run count with one row per run; the largest also with 100 rows per run
RegularFrames ==
    {RegularFrame(runs, 1) : runs \in 1..MaxClassRuns}
    \cup {RegularFrame(MaxClassRuns, rows) : rows \in RegularRows}

InjectiveOn(k) == {f \in [1..k -> 1..k] : \A i, j \in 1..k : f[i] = f[j] => i = j}

Rotations(k) ==
    {[i \in 1..k |-> ((i + r - 1) % k) + 1] : r \in 0..(k - 1)}
    \cup {[i \in 1..k |-> ((2 * k - i + r) % k) + 1] : r \in 0..(k - 1)}

\* the permutations sklearn.utils.shuffle may apply to k items
Shuffles(k) == IF k <= MaxShuffleAll THEN InjectiveOn(k) ELSE Rotations(k)

RAW_CSV_FILES ==
    {"TEP_FaultFree_Training", "TEP_Faulty_Training", "TEP_FaultFree_Testing"}

NORMAL_TRAIN_FILENAME == "TEP_FaultFree_Training"

FAULTY_TRAIN_FILENAME == "TEP_Faulty_Training"

\* the values DEFAULT_N_SIMULATIONS may have: 0 (falsy: no subsampling) and 1
SimulationCounts == {0, 1}

NoFile == [exists |-> FALSE, ok |-> FALSE, frame |-> EmptyFrame]

\* a file holding a frame; a CSV file that read_csv cannot parse is not ok
FileOf(d) == [exists |-> TRUE, ok |-> TRUE, frame |-> d]

Malformed == [exists |-> TRUE, ok |-> FALSE, frame |-> EmptyFrame]

\* an empty data directory
NoFiles ==
    [raw_dir  |-> FALSE,
     csv      |-> [name \in RAW_CSV_FILES |-> NoFile],
     parquet  |-> [name \in RAW_CSV_FILES |-> NoFile],
     master   |-> NoFile,
     subset   |-> [count \in SimulationCounts |-> NoFile],
     test_set |-> NoFile]

NotProduced == [known |-> FALSE, value |-> EmptyFrame]

\* main is not run
IdlePipeline ==
    /\ fs = NoFiles
    /\ fs_before = NoFiles
    /\ n_simulations = 0
    /\ main_pc = "idle"
    /\ main_runs = 0
    /\ trace = <<>>
    /\ earlier = {}
    /\ merge_ret = EmptyFrame
    /\ produced = [merge |-> NotProduced, load |-> NotProduced]
    /\ exit_code = -1

Phases == {"detector", "diagnostician"}

NoModel == [kind |-> "none", classes |-> {}, features |-> {}, samples |-> 0]

Absent == [state |-> "absent", model |-> NoModel]

NoSplit ==
    [unique_runs |-> <<>>, split_idx |-> 0, train_runs |-> <<>>,
     train |-> finalize_split_op(EmptyFrame), test |-> finalize_split_op(EmptyFrame)]

\* no splitter call
IdleSplit ==
    /\ df = AddUniqueRunId(MkFrame(<<>>))
    /\ test_size = <<0, 1>>
    /\ spc = "idle"
    /\ split = NoSplit

\* no trainer call, no artifact
IdleTrainer ==
    /\ model_files = [p \in Phases |-> Absent]
    /\ tpc = "idle"
    /\ force = FALSE
    /\ train_df = EmptyFrame
    /\ at_entry = {}
    /\ fitted = {}
    /\ written = {}
    /\ trainer = [p \in Phases |-> NoModel]
    /\ interrupts = 0

InitSplit ==
    /\ df \in {AddUniqueRunId(d) : d \in SmallFrames \cup RegularFrames}
    /\ test_size \in TestSizes
    /\ spc = "call"
    /\ split = NoSplit
    /\ IdleTrainer
    /\ IdlePipeline

\* DataLoader.split_by_run(df, test_size)
split_by_run ==
    /\ spc = "call"
    /\ \E perm \in Shuffles(Len(Unique(Column(df, "unique_run_id")))) :
           split' = SplitByRun(df, test_size, perm)
    /\ spc' = "returned"
    /\ UNCHANGED <<df, test_size>>
    /\ UNCHANGED vars_trainer
    /\ UNCHANGED vars_pipeline

NextSplit == split_by_run

SpecSplit == InitSplit /\ [][NextSplit]_vars

(***************************************************************************)
(* Properties of the splitter.                                             *)
(***************************************************************************)

\* the run a row of a partition belongs to, read off the input by index label
RunOfIndex(ix) == df.rows[ix + 1].data["unique_run_id"]

IndexSeq(part) == [i \in 1..Len(part.X.rows) |-> part.X.rows[i].index]

IndexSet(part) ==
    {part.X.rows[i].index : i \in 1..Len(part.X.rows)}
    \cup {part.y[i].index : i \in 1..Len(part.y)}

RunsOf(part) == {RunOfIndex(ix) : ix \in IndexSet(part)}

InputRuns == {df.rows[i].data["unique_run_id"] : i \in 1..Len(df.rows)}

NoRepeat(seq) == Cardinality({seq[i] : i \in 1..Len(seq)}) = Len(seq)

\* C1: after split_by_run, no unique_run_id has rows in both the train
\* partition and the test partition.
C1_RunsDisjoint ==
    spc = "returned" => RunsOf(split.train) \cap RunsOf(split.test) = {}

\* a split with both partitions non-empty of an input in which a run's rows
\* are not adjacent
C1_Witness ==
    /\ spc = "returned"
    /\ RunsOf(split.train) # {}
    /\ RunsOf(split.test) # {}
    /\ \E i, j, k \in 1..Len(df.rows) :
           /\ i < j /\ j < k
           /\ df.rows[i].data["unique_run_id"] = df.rows[k].data["unique_run_id"]
           /\ df.rows[i].data["unique_run_id"] # df.rows[j].data["unique_run_id"]

\* C2: the train and test partitions together hold every input row exactly
\* once: the row counts add up, no index label is dropped and none repeats.
C2_RowsPartitioned ==
    spc = "returned" =>
        /\ Len(split.train.X.rows) + Len(split.test.X.rows) = Len(df.rows)
        /\ Len(split.train.y) + Len(split.test.y) = Len(df.rows)
        /\ NoRepeat(IndexSeq(split.train) \o IndexSeq(split.test))
        /\ IndexSet(split.train) \cup IndexSet(split.test)
               = {df.rows[i].index : i \in 1..Len(df.rows)}
        /\ \A i \in 1..Len(split.train.y) :
               split.train.y[i].index = split.train.X.rows[i].index
        /\ \A i \in 1..Len(split.test.y) :
               split.test.y[i].index = split.test.X.rows[i].index

\* a split of three rows or more with rows on both sides
C2_Witness ==
    /\ spc = "returned"
    /\ Len(df.rows) >= 3
    /\ Len(split.train.X.rows) >= 1
    /\ Len(split.test.X.rows) >= 1
    /\ Len(split.train.X.rows) + Len(split.test.X.rows) = Len(df.rows)

\* the dataset of the end-to-end scenario: 10 normal runs and 10 faulty runs
\* of 100 rows each
ScenarioInput ==
    LET RowsOfRun(id) == {i \in 1..Len(df.rows) : df.rows[i].data["unique_run_id"] = id}
        RunsWhere(Faulty(_)) ==
            {df.rows[i].data["unique_run_id"] :
                i \in {j \in 1..Len(df.rows) : Faulty(df.rows[j].data["faultNumber"])}}
    IN  /\ Cardinality(InputRuns) = 20
        /\ Cardinality(RunsWhere(LAMBDA f : f = 0)) = 10
        /\ Cardinality(RunsWhere(LAMBDA f : f > 0)) = 10
        /\ \A id \in InputRuns : Cardinality(RowsOfRun(id)) = 100

\* C10: 20 runs (10 normal, 10 faulty, 100 rows each) split with
\* test_size = 0.2 give a test partition of 4 runs and a train partition of
\* the other 16.
C10_ScenarioCounts ==
    (spc = "returned" /\ ScenarioInput /\ test_size = <<2, 10>>) =>
        /\ Cardinality(RunsOf(split.test)) = 4
        /\ Cardinality(RunsOf(split.train)) = 16
        /\ RunsOf(split.train) \cup RunsOf(split.test) = InputRuns
        /\ RunsOf(split.train) \cap RunsOf(split.test) = {}
        /\ Len(split.test.X.rows) = 400
        /\ Len(split.train.X.rows) = 1600

C10_Witness ==
    /\ spc = "returned"
    /\ ScenarioInput
    /\ test_size = <<2, 10>>
    /\ Cardinality(RunsOf(split.test)) = 4

(***************************************************************************)
(* The cascade trainer: ModelTrainer.train_cascaded_models and _save_model.*)
(* An artifact file is absent, partial (joblib.dump has opened it and not  *)
(* finished) or complete; Path.exists() is true of the last two.  The      *)
(* estimators are fitted on frames that hold rows of both kinds; a fitted  *)
(* model is what the fit saw: its labels, its features, its sample count.  *)
(***************************************************************************)

\* Most interruptions of a run of calls.
MaxInterrupts == 2

\* main.py line 62: pd.concat([X_train, y_train], axis=1)
ConcatXy(part) ==
    [cols |-> part.X.cols \cup {"faultNumber"},
     rows |-> [i \in 1..Len(part.X.rows) |->
                 [index |-> part.X.rows[i].index,
                  data  |-> [c \in part.X.cols \cup {"faultNumber"} |->
                               IF c = "faultNumber" THEN part.y[i].value
                               ELSE part.X.rows[i].data[c]]]]]

\* the train partitions the trainer is called with
TrainFrames ==
    {ConcatXy(finalize_split_op(AddUniqueRunId(MkFrame(keys)))) :
        keys \in {<<<<0, 1>>, <<1, 1>>>>, <<<<0, 1>>, <<0, 2>>, <<1, 1>>, <<2, 1>>>>}}

\* Lines 98-109: _prepare_features
PrepareFeatures(d) == DropColumns(d, Metadata \cap d.cols)

\* Lines 62-70: the detector, fitted on all rows with label 1{faultNumber > 0}
FitDetector(d) ==
    LET y_train_binary == [i \in 1..Len(d.rows) |->
                              IF d.rows[i].data["faultNumber"] > 0 THEN 1 ELSE 0]
        X_train        == PrepareFeatures(d)
    IN  [kind     |-> "detector",
         classes  |-> {y_train_binary[i] : i \in 1..Len(y_train_binary)},
         features |-> X_train.cols,
         samples  |-> Len(X_train.rows)]

\* Lines 82-93: the diagnostician, fitted on the faulty rows with their fault id
FitDiagnostician(d) ==
    LET df_train_faulty ==
            [cols |-> d.cols,
             rows |-> SelectSeq(d.rows, LAMBDA r : r.data["faultNumber"] > 0)]
        X_train_diag == PrepareFeatures(df_train_faulty)
        y_train_diag == Column(df_train_faulty, "faultNumber")
    IN  [kind     |-> "diagnostician",
         classes  |-> {y_train_diag[i] : i \in 1..Len(y_train_diag)},
         features |-> X_train_diag.cols,
         samples  |-> Len(X_train_diag.rows)]

Fit(phase, d) == IF phase = "detector" THEN FitDetector(d) ELSE FitDiagnostician(d)

\* Path.exists()
Exists(file) == file.state # "absent"

\* a slip: the guard of a phase forgets the force flag
PhaseNeededNoForce(f, file) == ~Exists(file)

\* a slip: the guard of a phase forgets the artifact check
PhaseNeededAlways(f, file) == TRUE

\* Lines 58 and 78: if force or not self.<phase>_path.exists()
PhaseNeeded(f, file) == f \/ ~Exists(file)

\* Line 49: if not force and both artifacts exist
SkipAll(f, files) ==
    ~f /\ Exists(files["detector"]) /\ Exists(files["diagnostician"])

\* a slip: the two phases are run in the other order
PhaseOfSwapped(pc) ==
    IF pc \in {"phase1", "fit1", "save1", "dump1"} THEN "diagnostician" ELSE "detector"

\* the statements of a call, in order; a phase is its guard, its fit, and
\* the opening and the completion of joblib.dump
PhaseOf(pc) ==
    IF pc \in {"phase1", "fit1", "save1", "dump1"} THEN "detector" ELSE "diagnostician"

AfterPhase(pc) == IF PhaseOf(pc) = "detector" THEN "phase2" ELSE "done"

InitTrainer ==
    /\ IdleSplit
    /\ IdlePipeline
    /\ model_files \in [Phases -> {Absent} \cup
                           {[state |-> "complete", model |-> Fit(p, d)] :
                               p \in Phases, d \in TrainFrames}]
    /\ \A p \in Phases : model_files[p].model.kind \in {"none", p}
    /\ tpc = "idle"
    /\ force = FALSE
    /\ train_df = EmptyFrame
    /\ at_entry = {}
    /\ fitted = {}
    /\ written = {}
    /\ trainer = [p \in Phases |-> NoModel]
    /\ interrupts = 0

\* train_cascaded_models(df_train, force) is called
Call ==
    /\ tpc \in {"idle", "done"}
    /\ \E d \in TrainFrames, f \in BOOLEAN :
           /\ train_df' = d
           /\ force' = f
    /\ at_entry' = {p \in Phases : Exists(model_files[p])}
    /\ fitted' = {}
    /\ written' = {}
    /\ tpc' = "check"
    /\ UNCHANGED <<model_files, trainer, interrupts>>
    /\ UNCHANGED vars_split
    /\ UNCHANGED vars_pipeline

\* Lines 49-53: the idempotency check
Check ==
    /\ tpc = "check"
    /\ tpc' = IF SkipAll(force, model_files) THEN "done" ELSE "phase1"
    /\ UNCHANGED <<model_files, force, train_df, at_entry, fitted, written, trainer,
                   interrupts>>
    /\ UNCHANGED vars_split
    /\ UNCHANGED vars_pipeline

\* Lines 58 and 78: the guard of a phase
Guard ==
    /\ tpc \in {"phase1", "phase2"}
    /\ tpc' = IF PhaseNeeded(force, model_files[PhaseOf(tpc)])
              THEN (IF tpc = "phase1" THEN "fit1" ELSE "fit2")
              ELSE AfterPhase(tpc)
    /\ UNCHANGED <<model_files, force, train_df, at_entry, fitted, written, trainer,
                   interrupts>>
    /\ UNCHANGED vars_split
    /\ UNCHANGED vars_pipeline

\* Lines 62-70 and 82-93: the estimator of the phase is built and fitted
FitPhase ==
    /\ tpc \in {"fit1", "fit2"}
    /\ trainer' = [trainer EXCEPT ![PhaseOf(tpc)] = Fit(PhaseOf(tpc), train_df)]
    /\ fitted' = fitted \cup {PhaseOf(tpc)}
    /\ tpc' = IF tpc = "fit1" THEN "save1" ELSE "save2"
    /\ UNCHANGED <<model_files, force, train_df, at_entry, written, interrupts>>
    /\ UNCHANGED vars_split
    /\ UNCHANGED vars_pipeline

\* Line 122: joblib.dump opens the artifact file for writing
SaveOpen ==
    /\ tpc \in {"save1", "save2"}
    /\ model_files' = [model_files EXCEPT ![PhaseOf(tpc)] =
                          [state |-> "partial", model |-> NoModel]]
    /\ tpc' = IF tpc = "save1" THEN "dump1" ELSE "dump2"
    /\ UNCHANGED <<force, train_df, at_entry, fitted, written, trainer, interrupts>>
    /\ UNCHANGED vars_split
    /\ UNCHANGED vars_pipeline

\* Lines 122-123: joblib.dump completes and _save_model returns
SaveDone ==
    /\ tpc \in {"dump1", "dump2"}
    /\ model_files' = [model_files EXCEPT ![PhaseOf(tpc)] =
                          [state |-> "complete", model |-> trainer[PhaseOf(tpc)]]]
    /\ written' = written \cup {PhaseOf(tpc)}
    /\ tpc' = AfterPhase(tpc)
    /\ UNCHANGED <<force, train_df, at_entry, fitted, trainer, interrupts>>
    /\ UNCHANGED vars_split
    /\ UNCHANGED vars_pipeline

\* the process is interrupted inside the call: what is in memory is lost,
\* the files stay as they are
Interrupt ==
    /\ tpc \notin {"idle", "done"}
    /\ interrupts < MaxInterrupts
    /\ interrupts' = interrupts + 1
    /\ tpc' = "idle"
    /\ trainer' = [p \in Phases |-> NoModel]
    /\ UNCHANGED <<model_files, force, train_df, at_entry, fitted, written>>
    /\ UNCHANGED vars_split
    /\ UNCHANGED vars_pipeline

TrainerStep == Check \/ Guard \/ FitPhase \/ SaveOpen \/ SaveDone

NextTrainer ==
    \/ Call
    \/ Check
    \/ Guard
    \/ FitPhase
    \/ SaveOpen
    \/ SaveDone
    \/ Interrupt

SpecTrainer == InitTrainer /\ [][NextTrainer]_vars

\* a call that is made runs on, and the call is made again after an interruption
FairSpecTrainer ==
    /\ InitTrainer
    /\ [][NextTrainer]_vars
    /\ WF_vars(TrainerStep)
    /\ WF_vars(Call)

(***************************************************************************)
(* Properties of the cascade trainer.                                      *)
(***************************************************************************)

BothExist == Exists(model_files["detector"]) /\ Exists(model_files["diagnostician"])

\* C3: when a call returns, a phase has been fitted and its artifact
\* rewritten if and only if force was set or the phase's artifact file was
\* absent; the rewritten artifact holds the estimator fitted in this call.
C3_FittedIffNeeded ==
    tpc = "done" =>
        \A p \in Phases :
            /\ p \in fitted <=> (force \/ p \notin at_entry)
            /\ p \in written <=> (force \/ p \notin at_entry)
            /\ p \in written =>
                   model_files[p] = [state |-> "complete", model |-> Fit(p, train_df)]

\* a call without force that found only the diagnostician artifact and
\* fitted only the detector
C3_Witness ==
    /\ tpc = "done"
    /\ ~force
    /\ at_entry = {"diagnostician"}
    /\ fitted = {"detector"}
    /\ written = {"detector"}

ResetIndex(d) ==
    [cols |-> d.cols,
     rows |-> [i \in 1..Len(d.rows) |-> [index |-> i - 1, data |-> d.rows[i].data]]]

\* DataFrame.to_parquet(path, index=False) and pd.read_parquet(path),
\* pd.read_csv(path, dtype=OPTIMIZED_DTYPES)
ToParquet(d) == FileOf(ResetIndex(d))

ReadParquet(file) == ResetIndex(file.frame)

ReadCsv(file) == ResetIndex(file.frame)

\* a slip: the normal rows are left without a label
WithoutFault(d) == d

\* normal_df["faultNumber"] = 0
WithFaultZero(d) ==
    [cols |-> d.cols \cup {"faultNumber"},
     rows |-> [i \in 1..Len(d.rows) |->
                 [index |-> d.rows[i].index,
                  data  |-> [c \in d.cols \cup {"faultNumber"} |->
                               IF c = "faultNumber" THEN 0 ELSE d.rows[i].data[c]]]]]

\* pd.concat([a, b], axis=0, ignore_index=True): the union of the columns,
\* NaN where a frame has no such column
Concat(a, b) ==
    LET cols   == a.cols \cup b.cols
        Wide(r) == [c \in cols |-> IF c \in DOMAIN r.data THEN r.data[c] ELSE NaN]
        rows   == a.rows \o b.rows
    IN  [cols |-> cols,
         rows |-> [i \in 1..Len(rows) |-> [index |-> i - 1, data |-> Wide(rows[i])]]]

\* the k smallest elements of a set of numbers (np.unique(x)[:k])
Smallest(S, k) == {v \in S : Cardinality({w \in S : w < v}) < k}

\* Lines 119-123 of loader.py: _subsample_by_run
SubsampleByRun(d, count) ==
    LET RunsOfFault(fault) ==
            {d.rows[i].data["simulationRun"] :
                i \in {j \in 1..Len(d.rows) : d.rows[j].data["faultNumber"] = fault}}
        Keep(r) ==
            r.data["simulationRun"] \in Smallest(RunsOfFault(r.data["faultNumber"]), count)
    IN  ResetIndex([cols |-> d.cols, rows |-> SelectSeq(d.rows, Keep)])

Outcome(files, exception, value, wrote, caught) ==
    [files |-> files, exc |-> exception, ret |-> value, wrote |-> wrote,
     caught |-> caught]

\* Lines 36-65 of downloader.py (both sides of the unresolved merge agree on
\* what is done).  fetched is what kagglehub delivers: the CSV files of the
\* dataset, or "error" when the download raises.
Download(files, fetched) ==
    IF files.raw_dir THEN Outcome(files, "none", EmptyFrame, {}, {})
    ELSE IF fetched.error THEN Outcome(files, "DownloadError", EmptyFrame, {}, {})
    ELSE Outcome([files EXCEPT !.raw_dir = TRUE, !.csv = fetched.csv],
                 "none", EmptyFrame, {"raw"}, {})

\* Lines 52-69 of processor.py, for one CSV file
ConvertNeeded(files, name) ==
    files.csv[name].exists /\ ~files.parquet[name].exists

\* a slip: a missing source aborts the whole conversion
ConvertedUnlessMissing(files) ==
    {name \in RAW_CSV_FILES :
        /\ \A other \in RAW_CSV_FILES : files.csv[other].exists
        /\ ConvertNeeded(files, name)
        /\ files.csv[name].ok}

\* the files convert_csv_to_parquet writes
Converted(files) ==
    {name \in RAW_CSV_FILES : ConvertNeeded(files, name) /\ files.csv[name].ok}

\* Lines 41-74 of processor.py: convert_csv_to_parquet
Convert(files) ==
    LET done   == Converted(files)
        failed == {name \in RAW_CSV_FILES :
                      ConvertNeeded(files, name) /\ ~files.csv[name].ok}
    IN  Outcome([files EXCEPT !.parquet =
                    [name \in RAW_CSV_FILES |->
                        IF name \in done THEN ToParquet(ReadCsv(files.csv[name]))
                        ELSE files.parquet[name]]],
                "none", EmptyFrame, done, failed)

\* a slip: the empty check is left out
EmptySourcesNever(normal_df, faulty_df) == FALSE

\* Line 103 of processor.py: if normal_df.empty and faulty_df.empty
EmptySources(normal_df, faulty_df) == IsEmpty(normal_df) /\ IsEmpty(faulty_df)

\* a slip: the guard clause on the master file is left out
MasterCachedNever(files) == FALSE

\* Line 89 of processor.py: if MERGED_FILE_PATH.exists()
MasterCached(files) == files.master.exists

\* Lines 89-119 of processor.py: merge_faulty_and_normal_data
Merge(files) ==
    LET faulty_df == ReadParquet(files.parquet[FAULTY_TRAIN_FILENAME])
        normal_df == ReadParquet(files.parquet[NORMAL_TRAIN_FILENAME])
        labelled  == IF "faultNumber" \in normal_df.cols THEN normal_df
                     ELSE WithFaultZero(normal_df)
        merged_df == Concat(labelled, faulty_df)
    IN  IF MasterCached(files)
        THEN Outcome(files, "none", ReadParquet(files.master), {}, {})
        ELSE IF ~files.parquet[FAULTY_TRAIN_FILENAME].exists
                  \/ ~files.parquet[NORMAL_TRAIN_FILENAME].exists
        THEN Outcome(files, "FileNotFoundError", EmptyFrame, {}, {})
        ELSE IF EmptySources(normal_df, faulty_df)
        THEN Outcome(files, "none", EmptyFrame, {}, {})
        ELSE Outcome([files EXCEPT !.master = ToParquet(merged_df)],
                     "none", merged_df, {"master"}, {})

\* a slip: a missing master file yields an empty frame instead of an error
MasterMissingIgnored(files) == FALSE

\* Line 52 of loader.py: if not MERGED_FILE_PATH.exists()
MasterMissing(files) == ~files.master.exists

\* a slip: the subset cache is never looked at
SubsetCachedNever(files, count) == FALSE

\* Line 47 of loader.py: if subset_path.exists()
SubsetCached(files, count) == files.subset[count].exists

\* Lines 45-63 of loader.py: load_data(n_simulations)
LoadData(files, count) ==
    LET master_df == ReadParquet(files.master)
        sub_df    == SubsampleByRun(master_df, count)
        loaded    == IF SubsetCached(files, count) THEN ReadParquet(files.subset[count])
                     ELSE IF count # 0 THEN sub_df ELSE master_df
        after     == IF ~SubsetCached(files, count) /\ count # 0
                     THEN [files EXCEPT !.subset[count] = ToParquet(sub_df)]
                     ELSE files
        wrote     == IF ~SubsetCached(files, count) /\ count # 0
                     THEN {"subset"} ELSE {}
    IN  IF ~SubsetCached(files, count) /\ MasterMissing(files)
        THEN Outcome(files, "FileNotFoundError", EmptyFrame, {}, {})
        ELSE IF ~({"faultNumber", "simulationRun"} \subseteq loaded.cols)
        THEN Outcome(after, "KeyError", EmptyFrame, wrote, {})
        ELSE Outcome(after, "none", AddUniqueRunId(loaded), wrote, {})

\* Lines 132-139 of loader.py: save_test_set(X_test, y_test)
SaveTestSet(files, part) ==
    LET df_test ==
            [cols |-> part.X.cols \cup {"target"},
             rows |-> [i \in 1..Len(part.X.rows) |->
                         [index |-> part.X.rows[i].index,
                          data  |-> [c \in part.X.cols \cup {"target"} |->
                                       IF c = "target" THEN part.y[i].value
                                       ELSE part.X.rows[i].data[c]]]]]
    IN  Outcome([files EXCEPT !.test_set = ToParquet(df_test)],
                "none", EmptyFrame, {"test_set"}, {})

\* sklearn refuses to fit on no sample
FitFails(phase, d) == Fit(phase, d).samples = 0

\* Lines 49-96 of trainer.py, run to its end: the artifact files after the
\* call and the exception it raised
TrainCascaded(models, d, f) ==
    LET need1  == ~SkipAll(f, models) /\ PhaseNeeded(f, models["detector"])
        need2  == ~SkipAll(f, models) /\ PhaseNeeded(f, models["diagnostician"])
        saved1 == [models EXCEPT !["detector"] =
                      [state |-> "complete", model |-> FitDetector(d)]]
        after1 == IF need1 THEN saved1 ELSE models
        saved2 == [after1 EXCEPT !["diagnostician"] =
                      [state |-> "complete", model |-> FitDiagnostician(d)]]
    IN  IF need1 /\ FitFails("detector", d)
        THEN [models |-> models, exc |-> "ValueError", fitted |-> {}]
        ELSE IF need2 /\ FitFails("diagnostician", d)
        THEN [models |-> after1, exc |-> "ValueError",
              fitted |-> IF need1 THEN {"detector"} ELSE {}]
        ELSE [models |-> IF need2 THEN saved2 ELSE after1, exc |-> "none",
              fitted |-> {p \in Phases : (p = "detector" /\ need1)
                                            \/ (p = "diagnostician" /\ need2)}]

(***************************************************************************)
(* main: MLPipeline.preprocess, then MLPipeline.train, inside one try.     *)
(* The data directory outlives the process, so main starts on whatever     *)
(* earlier runs, or the user, left there.                                  *)
(***************************************************************************)

\* how many times main is run on the same data directory
MaxMainRuns == 2

\* the values DEFAULT_TEST_SIZE may have (the literal 0.2)
DefaultTestSizes == {<<2, 10>>}

\* the CSV files of the dataset: fault-free runs carry no faultNumber column
NormalCsv ==
    DropColumns(MkFrame(<<<<0, 1>>, <<0, 1>>, <<0, 2>>>>), {"faultNumber"})

FaultyCsv == MkFrame(<<<<1, 1>>, <<1, 1>>, <<1, 2>>, <<2, 1>>>>)

TestingCsv == DropColumns(MkFrame(<<<<0, 1>>>>), {"faultNumber"})

\* a file with its header and no row
NoRows(d) == [cols |-> d.cols, rows |-> <<>>]

CsvChoices(name) ==
    IF name = NORMAL_TRAIN_FILENAME THEN {NoFile, FileOf(NormalCsv), Malformed}
    ELSE IF name = FAULTY_TRAIN_FILENAME THEN {NoFile, FileOf(FaultyCsv), Malformed}
    ELSE {NoFile, FileOf(TestingCsv)}

ParquetChoices(name) ==
    IF name = NORMAL_TRAIN_FILENAME THEN {NoFile, ToParquet(NoRows(NormalCsv))}
    ELSE IF name = FAULTY_TRAIN_FILENAME THEN {NoFile, ToParquet(NoRows(FaultyCsv))}
    ELSE {NoFile}

\* what kagglehub delivers when the raw directory has to be fetched
Fetches ==
    {[error |-> TRUE, csv |-> [name \in RAW_CSV_FILES |-> NoFile]],
     [error |-> FALSE,
      csv   |-> [name \in RAW_CSV_FILES |->
                   IF name = NORMAL_TRAIN_FILENAME THEN FileOf(NormalCsv)
                   ELSE IF name = FAULTY_TRAIN_FILENAME THEN FileOf(FaultyCsv)
                   ELSE FileOf(TestingCsv)]]}

\* the master file an earlier run has written from the two training files
MasterOfEarlierRun == Concat(WithFaultZero(NormalCsv), FaultyCsv)

\* the data directories main may start on
InitialFiles ==
    {files \in [raw_dir  : BOOLEAN,
                csv      : [RAW_CSV_FILES -> {NoFile, Malformed, FileOf(NormalCsv),
                                              FileOf(FaultyCsv), FileOf(TestingCsv)}],
                parquet  : [RAW_CSV_FILES -> {NoFile, ToParquet(NoRows(NormalCsv)),
                                              ToParquet(NoRows(FaultyCsv))}],
                master   : {NoFile, ToParquet(MasterOfEarlierRun)},
                subset   : [SimulationCounts ->
                               {NoFile} \cup
                               {ToParquet(SubsampleByRun(MasterOfEarlierRun, count)) :
                                   count \in SimulationCounts \ {0}}],
                test_set : {NoFile}] :
        /\ \A name \in RAW_CSV_FILES :
              /\ files.csv[name] \in CsvChoices(name)
              /\ files.parquet[name] \in ParquetChoices(name)
              /\ files.csv[name].exists => files.raw_dir
        /\ \A count \in SimulationCounts :
              files.subset[count].exists =>
                  files.subset[count] =
                      ToParquet(SubsampleByRun(MasterOfEarlierRun, count))
        /\ ~files.subset[0].exists}

InitPipeline ==
    /\ fs \in InitialFiles
    /\ n_simulations \in SimulationCounts
    /\ \A count \in SimulationCounts : fs.subset[count].exists => count = n_simulations
    /\ test_size \in DefaultTestSizes
    /\ df = AddUniqueRunId(MkFrame(<<>>))
    /\ spc = "idle"
    /\ split = NoSplit
    /\ model_files \in
           {[p \in Phases |-> Absent],
            [p \in Phases |->
                [state |-> "complete",
                 model |-> Fit(p, MasterOfEarlierRun)]]}
    /\ tpc = "idle"
    /\ force = FALSE
    /\ train_df = EmptyFrame
    /\ at_entry = {}
    /\ fitted = {}
    /\ written = {}
    /\ trainer = [p \in Phases |-> NoModel]
    /\ interrupts = 0
    /\ fs_before = fs
    /\ main_pc = "download"
    /\ main_runs = 1
    /\ trace = <<>>
    /\ earlier = {}
    /\ merge_ret = EmptyFrame
    /\ produced = [merge |-> NotProduced, load |-> NotProduced]
    /\ exit_code = -1

Stages == <<"download", "convert", "merge", "load", "split", "save_test", "train">>

StageNo(stage) == CHOOSE i \in 1..Len(Stages) : Stages[i] = stage

\* a slip: preprocess catches what its stages raise and goes on
AfterStageSwallowed(stage, exception) ==
    IF stage = "train" THEN "return"
    ELSE IF stage \in {"download", "convert", "merge"}
    THEN Stages[StageNo(stage) + 1]
    ELSE IF exception # "none" THEN "except" ELSE Stages[StageNo(stage) + 1]

\* Lines 70-80 of main.py: an exception leaves the try block for the except
\* clause, a stage that returns is followed by the next statement
AfterStage(stage, exception) ==
    IF exception # "none" THEN "except"
    ELSE IF stage = "train" THEN "return"
    ELSE Stages[StageNo(stage) + 1]

\* what the trace keeps of a stage: its name, the exception it raised, the
\* artifacts it wrote, the files whose conversion failed inside it, and
\* whether the master file and the subset file existed when it started
Performed(stage, out) ==
    [stage  |-> stage,
     exc    |-> out.exc,
     wrote  |-> out.wrote,
     caught |-> out.caught,
     before |-> [master |-> fs.master.exists,
                 subset |-> fs.subset[n_simulations].exists]]

\* the bookkeeping every stage shares
Advance(stage, out) ==
    /\ main_pc' = AfterStage(stage, out.exc)
    /\ fs_before' = fs
    /\ fs' = out.files
    /\ trace' = Append(trace, Performed(stage, out))
    /\ UNCHANGED <<n_simulations, main_runs, earlier, exit_code, test_size>>
    /\ UNCHANGED <<spc, tpc, force, train_df, at_entry, fitted, written, trainer,
                   interrupts>>

\* Line 24 of main.py: self.downloader.download()
StageDownload ==
    /\ main_pc = "download"
    /\ \E fetched \in Fetches : Advance("download", Download(fs, fetched))
    /\ UNCHANGED <<df, split, model_files, merge_ret, produced>>

\* Line 27 of main.py: self.processor.convert_csv_to_parquet()
StageConvert ==
    /\ main_pc = "convert"
    /\ Advance("convert", Convert(fs))
    /\ UNCHANGED <<df, split, model_files, merge_ret, produced>>

\* Line 30 of main.py: self.processor.merge_faulty_and_normal_data()
StageMerge ==
    /\ main_pc = "merge"
    /\ LET out == Merge(fs)
       IN  /\ Advance("merge", out)
           /\ merge_ret' = out.ret
           /\ produced' = IF "master" \in out.wrote
                          THEN [produced EXCEPT !.merge =
                                   [known |-> TRUE, value |-> out.ret]]
                          ELSE produced
    /\ UNCHANGED <<df, split, model_files>>

\* Line 43 of main.py: df = self.loader.load_data()
StageLoad ==
    /\ main_pc = "load"
    /\ LET out == LoadData(fs, n_simulations)
       IN  /\ Advance("load", out)
           /\ df' = IF out.exc = "none" THEN out.ret ELSE df
           /\ produced' = IF "subset" \in out.wrote /\ out.exc = "none"
                          THEN [produced EXCEPT !.load =
                                   [known |-> TRUE, value |-> out.ret]]
                          ELSE produced
    /\ UNCHANGED <<split, model_files, merge_ret>>

\* Line 47 of main.py: self.loader.split_by_run(df)
StageSplit ==
    /\ main_pc = "split"
    /\ \E perm \in Rotations(Len(Unique(Column(df, "unique_run_id")))) :
           split' = SplitByRun(df, test_size, perm)
    /\ Advance("split", Outcome(fs, "none", EmptyFrame, {}, {}))
    /\ UNCHANGED <<df, model_files, merge_ret, produced>>

\* Line 56 of main.py: self.loader.save_test_set(X_test, y_test)
StageSaveTest ==
    /\ main_pc = "save_test"
    /\ Advance("save_test", SaveTestSet(fs, split.test))
    /\ UNCHANGED <<df, split, model_files, merge_ret, produced>>

\* Lines 62-63 of main.py: the train partition is put together again and
\* train_cascaded_models(df_train_ready, force=False) is called
StageTrain ==
    /\ main_pc = "train"
    /\ LET out == TrainCascaded(model_files, ConcatXy(split.train), FALSE)
       IN  /\ model_files' = out.models
           /\ Advance("train", Outcome(fs, out.exc, EmptyFrame, out.fitted, {}))
    /\ UNCHANGED <<df, split, merge_ret, produced>>

\* Line 75 of main.py: return 0
MainReturn ==
    /\ main_pc = "return"
    /\ main_pc' = "exited"
    /\ exit_code' = 0
    /\ UNCHANGED <<fs, fs_before, n_simulations, main_runs, trace, earlier, merge_ret,
                   produced>>
    /\ UNCHANGED vars_split
    /\ UNCHANGED vars_trainer

\* Lines 76-80 of main.py: except Exception: the error is printed, return 1
MainExcept ==
    /\ main_pc = "except"
    /\ main_pc' = "exited"
    /\ exit_code' = 1
    /\ UNCHANGED <<fs, fs_before, n_simulations, main_runs, trace, earlier, merge_ret,
                   produced>>
    /\ UNCHANGED vars_split
    /\ UNCHANGED vars_trainer

\* main is run again on the data directory the last run left
MainAgain ==
    /\ main_pc = "exited"
    /\ main_runs < MaxMainRuns
    /\ main_runs' = main_runs + 1
    /\ main_pc' = "download"
    /\ exit_code' = -1
    /\ trace' = <<>>
    /\ earlier' = earlier \cup {trace[i].stage : i \in 1..Len(trace)}
    /\ fs_before' = fs
    /\ df' = AddUniqueRunId(MkFrame(<<>>))
    /\ split' = NoSplit
    /\ merge_ret' = EmptyFrame
    /\ UNCHANGED <<fs, n_simulations, produced, test_size, spc>>
    /\ UNCHANGED vars_trainer

NextPipeline ==
    \/ StageDownload
    \/ StageConvert
    \/ StageMerge
    \/ StageLoad
    \/ StageSplit
    \/ StageSaveTest
    \/ StageTrain
    \/ MainReturn
    \/ MainExcept
    \/ MainAgain

SpecPipeline == InitPipeline /\ [][NextPipeline]_vars

(***************************************************************************)
(* Properties of the cached stages and of main.                            *)
(***************************************************************************)

\* the stage performed last in this run of main
LastStage == trace[Len(trace)]

JustRan(stage) == trace # <<>> /\ LastStage.stage = stage

\* the stage that ran last wrote nothing and left every file as it was
NoOp == LastStage.wrote = {} /\ fs = fs_before

\* main has left the try block through the except clause, or is about to
Halted == main_pc \in {"except", "exited"} /\ (main_pc = "exited" => exit_code = 1)

\* C5: a cached stage that is run again, on unchanged inputs and with the
\* artifact of its previous run in place, writes nothing, leaves every file
\* as it was and returns what the run that wrote the artifact returned.
\* convert_csv_to_parquet: any run after an earlier one; merge: the master
\* file exists; load_data: the subset file of the requested count exists.
C5_CachedStagesIdempotent ==
    /\ JustRan("convert") /\ "convert" \in earlier =>
           NoOp /\ LastStage.exc = "none"
    /\ JustRan("merge") /\ fs_before.master.exists =>
           /\ NoOp
           /\ LastStage.exc = "none"
           /\ merge_ret = ReadParquet(fs.master)
           /\ produced.merge.known => merge_ret = produced.merge.value
    /\ JustRan("load") /\ fs_before.subset[n_simulations].exists =>
           /\ NoOp
           /\ LastStage.exc = "none"
           /\ df = AddUniqueRunId(ReadParquet(fs.subset[n_simulations]))
           /\ produced.load.known => df = produced.load.value

\* the second run of main has run all three cached stages again, on the
\* artifacts the first run wrote
C5_Witness ==
    /\ JustRan("load")
    /\ main_runs = 2
    /\ "convert" \in earlier
    /\ produced.merge.known
    /\ produced.load.known
    /\ fs_before.subset[n_simulations].exists
    /\ Len(df.rows) > 0

ConversionOf(name) == ToParquet(ReadCsv(fs_before.csv[name]))

\* C7 as stated: convert_csv_to_parquet does not raise, writes no columnar
\* file for a missing CSV file, and converts every CSV file that is present
\* and has no columnar file yet.
C7_MissingCsvSkipped ==
    JustRan("convert") =>
        /\ LastStage.exc = "none"
        /\ main_pc = "merge"
        /\ \A name \in RAW_CSV_FILES :
              /\ ~fs_before.csv[name].exists =>
                     /\ name \notin LastStage.wrote
                     /\ fs.parquet[name] = fs_before.parquet[name]
              /\ fs_before.csv[name].exists /\ ~fs_before.parquet[name].exists =>
                     /\ name \in LastStage.wrote
                     /\ fs.parquet[name] = ConversionOf(name)

\* C7 amended: convert_csv_to_parquet does not raise, writes no columnar
\* file for a missing CSV file, and converts every CSV file that is present,
\* has no columnar file yet and can be read; a present file whose conversion
\* fails is logged and left without a columnar file.
C7_MissingCsvSkippedReadableConverted ==
    JustRan("convert") =>
        /\ LastStage.exc = "none"
        /\ main_pc = "merge"
        /\ \A name \in RAW_CSV_FILES :
              /\ ~fs_before.csv[name].exists =>
                     /\ name \notin LastStage.wrote
                     /\ fs.parquet[name] = fs_before.parquet[name]
              /\ /\ fs_before.csv[name].exists
                 /\ ~fs_before.parquet[name].exists
                 /\ fs_before.csv[name].ok
                 => /\ name \in LastStage.wrote
                    /\ fs.parquet[name] = ConversionOf(name)
              /\ /\ fs_before.csv[name].exists
                 /\ ~fs_before.parquet[name].exists
                 /\ ~fs_before.csv[name].ok
                 => /\ name \in LastStage.caught
                    /\ fs.parquet[name] = fs_before.parquet[name]

\* a conversion in which one CSV file is missing and another is converted
C7_Witness ==
    /\ JustRan("convert")
    /\ \E name \in RAW_CSV_FILES :
          ~fs_before.csv[name].exists /\ ~fs.parquet[name].exists
    /\ \E name \in RAW_CSV_FILES :
          name \in LastStage.wrote /\ fs.parquet[name].exists

\* both source files of the merge exist and hold no row
SourcesEmpty(files) ==
    /\ files.parquet[NORMAL_TRAIN_FILENAME].exists
    /\ files.parquet[FAULTY_TRAIN_FILENAME].exists
    /\ IsEmpty(ReadParquet(files.parquet[NORMAL_TRAIN_FILENAME]))
    /\ IsEmpty(ReadParquet(files.parquet[FAULTY_TRAIN_FILENAME]))

\* C8: a merge that finds no master file and empty sources returns an empty
\* frame, raises nothing and writes no master file; a merge writes the
\* master file only when there was none and the sources are not both empty.
C8_EmptyMergeShortCircuits ==
    JustRan("merge") =>
        /\ ~fs_before.master.exists /\ SourcesEmpty(fs_before) =>
               /\ LastStage.exc = "none"
               /\ main_pc = "load"
               /\ IsEmpty(merge_ret)
               /\ LastStage.wrote = {}
               /\ ~fs.master.exists
               /\ fs = fs_before
        /\ "master" \in LastStage.wrote \/ fs.master # fs_before.master =>
               /\ ~fs_before.master.exists
               /\ ~SourcesEmpty(fs_before)
               /\ ~IsEmpty(merge_ret)

\* the merge has short-circuited on two empty source files
C8_Witness ==
    /\ JustRan("merge")
    /\ ~fs_before.master.exists
    /\ SourcesEmpty(fs_before)
    /\ LastStage.exc = "none"
    /\ ~fs.master.exists

\* C9 as stated: an exception raised inside a stage, the caught conversion
\* failures included, ends the run: the stage is the last one performed and
\* main returns non-zero.
C9_EveryExceptionPropagates ==
    \A i \in 1..Len(trace) :
        trace[i].exc # "none" \/ trace[i].caught # {} =>
            i = Len(trace) /\ Halted

\* C9 amended: every exception raised inside a stage, other than the failed
\* conversion of a CSV file (which convert_csv_to_parquet catches and logs),
\* propagates to main: the stage is the last one performed and main returns
\* non-zero; and main returns zero only when no stage raised.
C9_UncaughtExceptionPropagates ==
    /\ \A i \in 1..Len(trace) :
          /\ trace[i].exc # "none" => i = Len(trace) /\ Halted
          /\ trace[i].caught # {} => trace[i].stage = "convert" /\ trace[i].exc = "none"
    /\ main_pc = "exited" /\ exit_code = 0 =>
          \A i \in 1..Len(trace) : trace[i].exc = "none"

\* main has returned 1 after the merge found a source file missing
C9_Witness ==
    /\ main_pc = "exited"
    /\ exit_code = 1
    /\ JustRan("merge")
    /\ LastStage.exc = "FileNotFoundError"
    /\ Len(trace) = 3

(***************************************************************************)
(* merge_faulty_and_normal_data on its own: the two source files hold any  *)
(* small normal and faulty frame, with or without a faultNumber column,    *)
(* and there is no master file yet.                                        *)
(***************************************************************************)

\* rows per source file
MaxSourceRows == 2

FaultIds == {1, 2}

\* a frame and the same frame without its faultNumber column
WithAndWithoutFault(d) == {d, DropColumns(d, {"faultNumber"})}

NormalSources ==
    UNION {WithAndWithoutFault(MkFrame(keys)) :
              keys \in SeqsUpTo({0} \X (1..MaxRun), MaxSourceRows)}

FaultySources ==
    UNION {WithAndWithoutFault(MkFrame(keys)) :
              keys \in SeqsUpTo(FaultIds \X (1..MaxRun), MaxSourceRows)}

InitMerge ==
    /\ \E normal \in NormalSources, faulty \in FaultySources :
           fs = [NoFiles EXCEPT
                    !.raw_dir = TRUE,
                    !.parquet[NORMAL_TRAIN_FILENAME] = ToParquet(normal),
                    !.parquet[FAULTY_TRAIN_FILENAME] = ToParquet(faulty)]
    /\ fs_before = fs
    /\ n_simulations = 0
    /\ main_pc = "merge"
    /\ main_runs = 1
    /\ trace = <<>>
    /\ earlier = {}
    /\ merge_ret = EmptyFrame
    /\ produced = [merge |-> NotProduced, load |-> NotProduced]
    /\ exit_code = -1
    /\ IdleSplit
    /\ IdleTrainer

NextMerge == StageMerge

SpecMerge == InitMerge /\ [][NextMerge]_vars

\* the rows of the two sources the merge read, normal rows first
NormalRows == ReadParquet(fs_before.parquet[NORMAL_TRAIN_FILENAME]).rows

FaultyRows == ReadParquet(fs_before.parquet[FAULTY_TRAIN_FILENAME]).rows

\* the source row that became row i of the master dataset
SourceRow(i) ==
    IF i <= Len(NormalRows) THEN NormalRows[i] ELSE FaultyRows[i - Len(NormalRows)]

\* the faultNumber value of a row, NaN when it has none
FaultOf(r) == IF "faultNumber" \in DOMAIN r.data THEN r.data["faultNumber"] ELSE NaN

\* the row had a faultNumber value
HadFault(r) == FaultOf(r) # NaN

\* the merge that ran last has built and written the master dataset
MasterBuilt == JustRan("merge") /\ "master" \in LastStage.wrote

MasterRows == ReadParquet(fs.master).rows

\* C11 as stated: in the master dataset the merge has built, every row that
\* had no faultNumber value has faultNumber 0 and every row that had one
\* keeps it.
C11_MissingFaultIsZero ==
    MasterBuilt =>
        /\ Len(MasterRows) = Len(NormalRows) + Len(FaultyRows)
        /\ \A i \in 1..Len(MasterRows) :
              FaultOf(MasterRows[i]) =
                  IF HadFault(SourceRow(i)) THEN FaultOf(SourceRow(i)) ELSE 0

\* C11 amended: in the master dataset the merge has built, every row of a
\* normal source that has no faultNumber column has faultNumber 0, every row
\* that had a faultNumber keeps it, and a row of a faulty source that has no
\* faultNumber column has no faultNumber value (NaN).
C11_NormalWithoutColumnIsZero ==
    MasterBuilt =>
        /\ Len(MasterRows) = Len(NormalRows) + Len(FaultyRows)
        /\ merge_ret.rows = MasterRows
        /\ \A i \in 1..Len(MasterRows) :
              FaultOf(MasterRows[i]) =
                  IF HadFault(SourceRow(i)) THEN FaultOf(SourceRow(i))
                  ELSE IF i <= Len(NormalRows) THEN 0
                  ELSE NaN

\* a master dataset built from normal rows without the column and faulty
\* rows with it
C11_Witness ==
    /\ MasterBuilt
    /\ NormalRows # <<>>
    /\ FaultyRows # <<>>
    /\ \A i \in 1..Len(NormalRows) : ~HadFault(NormalRows[i])
    /\ \A i \in 1..Len(FaultyRows) : HadFault(FaultyRows[i])

(***************************************************************************)
(* The trainer started on an empty model directory: the artifact files     *)
(* change through train_cascaded_models only.                              *)
(***************************************************************************)

InitFreshTrainer == IdleSplit /\ IdlePipeline /\ IdleTrainer

SpecFreshTrainer == InitFreshTrainer /\ [][NextTrainer]_vars

\* C12: from an empty model directory, whatever calls are made and wherever
\* they are interrupted, the diagnostician artifact file exists only if the
\* detector artifact file exists.
C12_DiagnosticianImpliesDetector ==
    Exists(model_files["diagnostician"]) => Exists(model_files["detector"])

\* a forced call is rewriting the detector artifact, after an interruption,
\* while the diagnostician artifact of an earlier call is in place
C12_Witness ==
    /\ interrupts > 0
    /\ force
    /\ tpc = "dump1"
    /\ model_files["diagnostician"].state = "complete"
    /\ Exists(model_files["detector"])

(***************************************************************************)
(* How many runs split_by_run puts on each side: every number of runs up   *)
(* to MaxCountRuns, two rows a run, and every test fraction of up to two   *)
(* decimal places in [0, 1].                                               *)
(***************************************************************************)

MaxCountRuns == 20

\* the decimal literals 0.00, 0.01, ..., 1.00
Hundredths == {<<n, 100>> : n \in 0..100}

\* count runs of two rows each, normal and faulty in turn
CountFrame(count) ==
    MkFrame([i \in 1..(2 * count) |-> <<((i + 1) \div 2) % 2, (i + 1) \div 2>>])

InitSplitCount ==
    /\ \E count \in 0..MaxCountRuns : df = AddUniqueRunId(CountFrame(count))
    /\ test_size \in Hundredths \cup {<<0, 1>>, <<1, 10>>, <<2, 10>>, <<5, 10>>,
                                      <<8, 10>>, <<9, 10>>, <<1, 1>>}
    /\ spc = "call"
    /\ split = NoSplit
    /\ IdleTrainer
    /\ IdlePipeline

SpecSplitCount == InitSplitCount /\ [][NextSplit]_vars

\* floor(N * (1 - t)) for the fraction t = num/den, in exact arithmetic
ExactFloor(count, lit) == (count * (lit[2] - lit[1])) \div lit[2]

\* N * (1 - t) is a whole number
ExactWhole(count, lit) == (count * (lit[2] - lit[1])) % lit[2] = 0

TrainRuns == Cardinality(RunsOf(split.train))

TestRuns == Cardinality(RunsOf(split.test))

\* split_by_run has returned, for a test fraction in [0, 1]
SplitInRange == spc = "returned" /\ test_size[1] >= 0 /\ test_size[1] <= test_size[2]

\* C13 as stated: the train partition holds floor(N*(1-t)) runs and the test
\* partition the other N - floor(N*(1-t)); the test partition is not empty
\* when t > 0 and N >= 1; the train partition is empty when N*(1-t) < 1.
C13_TrainIsExactFloor ==
    SplitInRange =>
        LET count == Cardinality(InputRuns)
        IN  /\ TrainRuns = ExactFloor(count, test_size)
            /\ TestRuns = count - ExactFloor(count, test_size)
            /\ test_size[1] > 0 /\ count >= 1 => TestRuns > 0
            /\ count * (test_size[2] - test_size[1]) < test_size[2] => TrainRuns = 0

\* C13 amended: the train partition holds int(N*(1-t)) runs as binary64
\* arithmetic gives it, which is floor(N*(1-t)), or one less when N*(1-t) is
\* a whole number; the test partition holds the other runs; the test
\* partition is not empty when t > 0 and N >= 1; the train partition is
\* empty when N*(1-t) < 1.
C13_TrainIsFloorOrOneLess ==
    SplitInRange =>
        LET count == Cardinality(InputRuns)
        IN  /\ \/ TrainRuns = ExactFloor(count, test_size)
               \/ /\ TrainRuns = ExactFloor(count, test_size) - 1
                  /\ ExactWhole(count, test_size)
            /\ TestRuns = count - TrainRuns
            /\ RunsOf(split.train) \cup RunsOf(split.test) = InputRuns
            /\ test_size[1] > 0 /\ count >= 1 => TestRuns > 0
            /\ count * (test_size[2] - test_size[1]) < test_size[2] => TrainRuns = 0

\* a split whose train partition is one run short of floor(N*(1-t))
C13_Witness ==
    /\ SplitInRange
    /\ Cardinality(InputRuns) >= 1
    /\ test_size[1] > 0
    /\ TrainRuns = ExactFloor(Cardinality(InputRuns), test_size) - 1
    /\ TestRuns = Cardinality(InputRuns) - TrainRuns

=============================================================================
